---- MODULE Spec2Model ----
(***************************************************************************)
(* A model of the QMT gateway of src/gateway/qmt/main.py: the settings and *)
(* adapter selection done at import, the bearer gate, the routes and the   *)
(* mock adapter with its in-memory order registry.                         *)
(*                                                                         *)
(* Python strings that the code lower-cases, strips or prefix-tests are    *)
(* tuples of one-character strings; strings the code only compares or      *)
(* stores are TLA+ strings.  Optional[x] is <<>> (None) or <<x>>.  Prices  *)
(* are in tenths of a currency unit (1698.0 is 16980).                     *)
(***************************************************************************)
EXTENDS Integers, Sequences, FiniteSets, TLC

\* ------------------------------------------------------------------ bounds

\* the uuid4 space: at most MaxOrders orders are placed
MaxOrders == 2
\* requested kline limits range over 0 .. MaxLimit (and LimitLe + 1)
MaxLimit == 2
\* whitespace runs around a header value are at most MaxPad long
MaxPad == 1
\* handler threads of the worker pool that run at the same time
NThreads == 2

\* ------------------------------------------------------- program constants

QuantityGe == 1
LimitGe == 1
LimitLe == 2000
LastPrice == 16980
UpperLimit == 18678
LowerLimit == 15282

\* ----------------------------------------------------------------- strings

None == <<>>
Some(x) == <<x>>

UpperChars ==
  <<"A","B","C","D","E","F","G","H","I","J","K","L","M",
    "N","O","P","Q","R","S","T","U","V","W","X","Y","Z">>
LowerChars ==
  <<"a","b","c","d","e","f","g","h","i","j","k","l","m",
    "n","o","p","q","r","s","t","u","v","w","x","y","z">>

\* str.strip() with no argument removes whitespace
Whitespace == {" ", "\t"}

LowerChar(c) ==
  IF \E i \in 1..26 : UpperChars[i] = c
    THEN LowerChars[CHOOSE i \in 1..26 : UpperChars[i] = c]
    ELSE c

\* str.lower()
Lower(s) == [i \in 1..Len(s) |-> LowerChar(s[i])]

RECURSIVE LStrip(_)
LStrip(s) ==
  IF s # <<>> /\ Head(s) \in Whitespace THEN LStrip(Tail(s)) ELSE s

RECURSIVE RStrip(_)
RStrip(s) ==
  IF s # <<>> /\ s[Len(s)] \in Whitespace
    THEN RStrip(SubSeq(s, 1, Len(s) - 1))
    ELSE s

\* str.strip()
Strip(s) == RStrip(LStrip(s))

\* str.startswith(p)
StartsWith(s, p) == Len(s) >= Len(p) /\ SubSeq(s, 1, Len(p)) = p

\* str.removeprefix(p)
RemovePrefix(s, p) ==
  IF StartsWith(s, p) THEN SubSeq(s, Len(p) + 1, Len(s)) ELSE s

BearerPrefix == <<"B","e","a","r","e","r"," ">>
ModeMock == <<"m","o","c","k">>
ModeXtQuant == <<"x","t","q","u","a","n","t">>

\* ------------------------------------------------------------------- state

VARIABLES
  env,       \* the process environment: QMT_GATEWAY_TOKEN, QMT_GATEWAY_MODE
  phase,     \* "boot" (module not imported yet), "serving" or "aborted"
  settings,  \* the module-level Settings(token, mode)
  adapter,   \* the class of the module-level adapter: "none", "mock", "xtquant"
  orders,    \* MockAdapter._orders: order_id -> order
  issued,    \* the uuid4 values drawn so far
  clock,     \* the wall clock, in milliseconds
  resp,      \* the request served last and its response
  gate,      \* the auth gate's last decision, with the header it was given
  pc,        \* per handler thread: the statement it is about to execute
  frame,     \* per handler thread: its request and local variables
  hist       \* history of the order requests served (kept by HistSpec)

vars == <<env, phase, settings, adapter, orders, issued, clock, resp, gate, pc, frame, hist>>

\* ---------------------------------------------------------------- settings

\* os.getenv(name, default)
getenv(e, name, default) == IF e[name] = None THEN default ELSE e[name][1]

\* x or y, for strings
OrElse(x, y) == IF x = <<>> THEN y ELSE x

load_settings(e) ==
  [ token |-> getenv(e, "QMT_GATEWAY_TOKEN", <<>>),
    mode  |-> OrElse(Strip(Lower(getenv(e, "QMT_GATEWAY_MODE", ModeMock))), ModeMock) ]

\* XtQuantAdapter.__init__ raises NotImplementedError: no instance is built
XtQuantAdapter == [ok |-> FALSE, cls |-> "xtquant"]

\* MockAdapter.__init__ builds an adapter with an empty registry
MockAdapterNew == [ok |-> TRUE, cls |-> "mock"]

\* the selection falling back to the mock when the adapter cannot be built
SelectFallback(mode) == MockAdapterNew

\* the module-level adapter selection
SelectAdapter(mode) == IF mode = ModeXtQuant THEN XtQuantAdapter ELSE MockAdapterNew

\* ------------------------------------------------------------ mock adapter

Ids == 1..MaxOrders

\* uuid.uuid4(): a random 122-bit value, taken never to repeat
uuid4(used) == Ids \ used

\* a balance that debits the available funds by the orders in the registry
BalanceNetOfOrders(account_id) ==
  [ total_equity |-> 10000000,
    available_balance |-> 6500000 - Cardinality(DOMAIN orders) * LastPrice,
    wallet_balance |-> 6500000, unrealized_pnl |-> 0, market_value |-> 3500000 ]

MockAdapter_get_balance(account_id) ==
  [ total_equity |-> 10000000, available_balance |-> 6500000,
    wallet_balance |-> 6500000, unrealized_pnl |-> 0, market_value |-> 3500000 ]

MockAdapter_get_positions(account_id) ==
  << [ symbol |-> "600519.SH", quantity |-> 500, available_qty |-> 300,
       entry_price |-> 16800, last_price |-> 16980, unrealized_pnl |-> 90000 ] >>

MockAdapter_get_snapshot(symbol) ==
  [ symbol |-> symbol, last_price |-> LastPrice,
    upper_limit |-> UpperLimit, lower_limit |-> LowerLimit ]

Max(a, b) == IF a >= b THEN a ELSE b
Min(a, b) == IF a <= b THEN a ELSE b

\* the price before candle i: the running variable `price` of the loop
RECURSIVE KlinePrice(_)
KlinePrice(i) ==
  IF i = 0 THEN LastPrice
  ELSE KlinePrice(i - 1) + (IF (i - 1) % 2 = 0 THEN 8 ELSE -5)

MockAdapter_get_klines(symbol, interval, limit, now_ms) ==
  LET step_ms == 5 * 60 * 1000
  IN [ k \in 1..limit |->
       LET i == k - 1
           ts == now_ms - step_ms * (limit - i)
           open_px == KlinePrice(i)
           close_px == open_px + (IF i % 2 = 0 THEN 8 ELSE -5)
       IN [ openTime |-> ts, closeTime |-> ts + step_ms - 1,
            open |-> open_px, high |-> Max(open_px, close_px) + 4,
            low |-> Min(open_px, close_px) - 4, close |-> close_px,
            volume |-> 1200 + i, quoteVolume |-> (1200 + i) * close_px ] ]

SectorLiquor == <<"l","i","q","u","o","r">>
SectorBank == <<"b","a","n","k">>

\* get_symbols comparing the sector without lower-casing it
GetSymbolsCaseSensitive(scope, sector) ==
  IF scope = "sector" /\ sector # None /\ sector[1] = SectorLiquor
    THEN <<"600519.SH", "000858.SZ">>
  ELSE IF scope = "sector" /\ sector # None /\ sector[1] = SectorBank
    THEN <<"600036.SH", "601398.SH", "000001.SZ">>
  ELSE <<"600519.SH", "000001.SZ", "300750.SZ", "601318.SH">>

MockAdapter_get_symbols(scope, sector) ==
  IF scope = "sector" /\ sector # None /\ sector[1] # <<>> /\ Lower(sector[1]) = SectorLiquor
    THEN <<"600519.SH", "000858.SZ">>
  ELSE IF scope = "sector" /\ sector # None /\ sector[1] # <<>> /\ Lower(sector[1]) = SectorBank
    THEN <<"600036.SH", "601398.SH", "000001.SZ">>
  ELSE <<"600519.SH", "000001.SZ", "300750.SZ", "601318.SH">>

\* an order filled at the upper price limit instead of the last price
NewOrderAtLimit(req, order_id, now) ==
  [ order_id |-> order_id, status |-> "FILLED", symbol |-> req.symbol,
    side |-> req.side, quantity |-> req.quantity,
    avg_price |-> MockAdapter_get_snapshot(req.symbol).upper_limit,
    commission |-> 0, client_req_id |-> req.client_req_id, created_at |-> now ]

\* the dict built by place_order
NewOrder(req, order_id, now) ==
  [ order_id |-> order_id, status |-> "FILLED", symbol |-> req.symbol,
    side |-> req.side, quantity |-> req.quantity,
    avg_price |-> MockAdapter_get_snapshot(req.symbol).last_price,
    commission |-> 0, client_req_id |-> req.client_req_id, created_at |-> now ]

\* a store that rebinds the registry to a dict holding the new order alone
StoreOrderAlone(ords, order_id, order) == [ k \in {order_id} |-> order ]

\* self._orders[order_id] = order
StoreOrder(ords, order_id, order) ==
  [ k \in DOMAIN ords \cup {order_id} |-> IF k = order_id THEN order ELSE ords[k] ]

\* place_order returning the stored order of the same client_req_id, if any
PlaceDeduplicated(ords, req, order_id, now) ==
  IF \E k \in DOMAIN ords : ords[k].client_req_id = req.client_req_id
    THEN [ orders |-> ords,
           ret |-> ords[CHOOSE k \in DOMAIN ords : ords[k].client_req_id = req.client_req_id] ]
    ELSE [ orders |-> StoreOrder(ords, order_id, NewOrder(req, order_id, now)),
           ret |-> NewOrder(req, order_id, now) ]

\* place_order with the uuid4 value and the time it reads: the registry after
\* the call and the value returned
MockAdapter_place_order(ords, req, order_id, now) ==
  LET order == NewOrder(req, order_id, now)
  IN [ orders |-> StoreOrder(ords, order_id, order), ret |-> order ]

\* the stored order replaced by the cancel result
SetCanceledReplacing(ords, order_id) ==
  [ ords EXCEPT ![order_id] = [status |-> "CANCELED", order_id |-> order_id] ]

\* self._orders[order_id]["status"] = "CANCELED"
SetCanceled(ords, order_id) == [ ords EXCEPT ![order_id].status = "CANCELED" ]

\* cancel_order storing a CANCELED entry for an id it does not know
CancelUpserting(ords, req) ==
  [ orders |-> [ k \in DOMAIN ords \cup {req.order_id} |->
                 IF k = req.order_id
                   THEN IF k \in DOMAIN ords THEN [ords[k] EXCEPT !.status = "CANCELED"]
                        ELSE [status |-> "CANCELED", order_id |-> k]
                   ELSE ords[k] ],
    ret |-> [status |-> "CANCELED", order_id |-> req.order_id] ]

\* cancel_order removing the order it cancels
CancelPopping(ords, req) ==
  IF req.order_id \notin DOMAIN ords
    THEN [ orders |-> ords, ret |-> [status |-> "NOT_FOUND", order_id |-> req.order_id] ]
    ELSE [ orders |-> [ k \in DOMAIN ords \ {req.order_id} |-> ords[k] ],
           ret |-> [status |-> "CANCELED", order_id |-> req.order_id] ]

\* cancel_order with a status guard: an order already canceled is reported so
CancelGuarded(ords, req) ==
  IF req.order_id \notin DOMAIN ords
    THEN [ orders |-> ords, ret |-> [status |-> "NOT_FOUND", order_id |-> req.order_id] ]
  ELSE IF ords[req.order_id].status = "CANCELED"
    THEN [ orders |-> ords,
           ret |-> [status |-> "ALREADY_CANCELED", order_id |-> req.order_id] ]
  ELSE [ orders |-> SetCanceled(ords, req.order_id),
         ret |-> [status |-> "CANCELED", order_id |-> req.order_id] ]

\* cancel_order that finds an order only for the account that placed it
CancelOwnAccountOnly(ords, req) ==
  IF req.order_id \notin DOMAIN ords \/ hist.placed_by[req.order_id] # req.account_id
    THEN [ orders |-> ords, ret |-> [status |-> "NOT_FOUND", order_id |-> req.order_id] ]
    ELSE [ orders |-> SetCanceled(ords, req.order_id),
           ret |-> [status |-> "CANCELED", order_id |-> req.order_id] ]

MockAdapter_cancel_order(ords, req) ==
  IF req.order_id \notin DOMAIN ords
    THEN [ orders |-> ords, ret |-> [status |-> "NOT_FOUND", order_id |-> req.order_id] ]
    ELSE [ orders |-> SetCanceled(ords, req.order_id),
           ret |-> [status |-> "CANCELED", order_id |-> req.order_id] ]

\* --------------------------------------------------------------- auth gate

GateOk == [ok |-> TRUE, status_code |-> 0, detail |-> ""]
GateRaise(detail) == [ok |-> FALSE, status_code |-> 401, detail |-> detail]

\* require_bearer comparing the value after the prefix as it stands
RequireBearerUnstripped(token, authorization) ==
  IF token = <<>> THEN GateOk
  ELSE IF authorization = None \/ authorization[1] = <<>>
            \/ ~StartsWith(authorization[1], BearerPrefix)
    THEN GateRaise("missing bearer token")
  ELSE IF RemovePrefix(authorization[1], BearerPrefix) # token
    THEN GateRaise("invalid bearer token")
  ELSE GateOk

\* require_bearer: GateOk when it returns, else the HTTPException it raises
require_bearer(token, authorization) ==
  IF token = <<>> THEN GateOk
  ELSE IF authorization = None \/ authorization[1] = <<>>
            \/ ~StartsWith(authorization[1], BearerPrefix)
    THEN GateRaise("missing bearer token")
  ELSE IF Strip(RemovePrefix(authorization[1], BearerPrefix)) # token
    THEN GateRaise("invalid bearer token")
  ELSE GateOk

\* ------------------------------------------------------------------ inputs

TokenTk == <<"t","k">>

\* the environments the gateway is started in: unset variables, a token with
\* a mode that selects no adapter, and the xtquant mode in two spellings
Envs ==
  { [QMT_GATEWAY_TOKEN |-> None, QMT_GATEWAY_MODE |-> None],
    [QMT_GATEWAY_TOKEN |-> Some(TokenTk), QMT_GATEWAY_MODE |-> Some(<<"L","i","v","e"," ">>)],
    [QMT_GATEWAY_TOKEN |-> Some(TokenTk), QMT_GATEWAY_MODE |-> Some(<<" ","X","t","Q","u","a","n","t"," ">>)],
    [QMT_GATEWAY_TOKEN |-> None, QMT_GATEWAY_MODE |-> Some(ModeXtQuant)] }

\* Authorization headers of the requests: absent, or the token
Headers == { None, Some(BearerPrefix \o TokenTk) }

\* the values the wall clock takes, in milliseconds
Times == { 0, 1 }

Accounts == { "A1", "A2" }
Symbols == { "600519.SH", "NOPE.XX" }

\* symbol, side, quantity, client_req_id of the order requests
OrderShapes ==
  { <<"600519.SH", "BUY", 1, "r1">>, <<"NOPE.XX", "SELL", 2, "r2">>,
    <<"600519.SH", "BUY", 0, "r1">>, <<"NOPE.XX", "SELL", -1, "r2">> }

OrderRequests ==
  { [ account_id |-> a, market |-> "CN-A", symbol |-> sh[1], side |-> sh[2],
      quantity |-> sh[3], order_type |-> "MARKET", client_req_id |-> sh[4] ] :
    a \in Accounts, sh \in OrderShapes }

\* order ids a cancel request may name: every uuid and one no uuid4 call returns
CancelOrderRequests ==
  { [ account_id |-> a, order_id |-> id ] : a \in Accounts, id \in Ids \cup {0} }

\* symbol and interval of the kline requests
KlineQueries == { <<"600519.SH", "5m">>, <<"NOPE.XX", "1h">> }
Limits == 0..MaxLimit \cup { LimitLe + 1 }

\* scope and sector of the symbol requests
SymbolQueries ==
  { <<"watchlist", None>>, <<"watchlist", Some(SectorLiquor)>>,
    <<"sector", None>>, <<"sector", Some(<<>>)>>,
    <<"sector", Some(<<"L","i","q","u","o","r">>)>>, <<"sector", Some(SectorBank)>>,
    <<"sector", Some(<<"t","e","c","h">>)>>, <<"all", None>> }

\* ------------------------------------------------------------------ routes

NoError == <<>>

\* OrderRequest with quantity: int and no bound
ValidateUnbounded(req) == NoError

\* OrderRequest: quantity: int = Field(..., ge=1)
validate_OrderRequest(req) ==
  IF req.quantity >= QuantityGe THEN NoError
  ELSE << [loc |-> "quantity", type |-> "greater_than_equal", input |-> req.quantity] >>

\* limit: int = Query(500, ge=1, le=2000)
validate_limit(limit) ==
  IF limit < LimitGe
    THEN << [loc |-> "limit", type |-> "greater_than_equal", input |-> limit] >>
  ELSE IF limit > LimitLe
    THEN << [loc |-> "limit", type |-> "less_than_equal", input |-> limit] >>
  ELSE NoError

\* scope: str = Query("watchlist", pattern="^(watchlist|sector)$")
validate_scope(scope) ==
  IF scope \in { "watchlist", "sector" } THEN NoError
  ELSE << [loc |-> "scope", type |-> "string_pattern_mismatch", input |-> scope] >>

\* a route that calls the adapter whatever the gate said, once the parameters
\* are valid
HandleUngated(route, auth, verr, cur, out) ==
  IF verr # NoError
    THEN [ resp |-> [route |-> route, code |-> 422, called |-> "none",
                     body |-> [detail |-> verr]],
           orders |-> cur.orders, issued |-> cur.issued ]
  ELSE [ resp |-> [route |-> route, code |-> IF auth.ok THEN 200 ELSE auth.status_code,
                   called |-> out.called, body |-> out.body],
         orders |-> out.orders, issued |-> out.issued ]

\* A route with dependencies=[Depends(require_bearer)]: the gate runs first and
\* its HTTPException ends the request; then the parameters are validated (422);
\* then the handler body calls the adapter.  cur is the state before the
\* request, out the adapter call: the method, what it returns, the state after.
Handle(route, auth, verr, cur, out) ==
  IF ~auth.ok
    THEN [ resp |-> [route |-> route, code |-> auth.status_code, called |-> "none",
                     body |-> [detail |-> auth.detail]],
           orders |-> cur.orders, issued |-> cur.issued ]
  ELSE IF verr # NoError
    THEN [ resp |-> [route |-> route, code |-> 422, called |-> "none",
                     body |-> [detail |-> verr]],
           orders |-> cur.orders, issued |-> cur.issued ]
  ELSE [ resp |-> [route |-> route, code |-> 200, called |-> out.called,
                   body |-> out.body],
         orders |-> out.orders, issued |-> out.issued ]

Cur == [orders |-> orders, issued |-> issued]

\* a read method that empties the registry as it returns
ReadCallClearing(method, value) ==
  [called |-> method, body |-> value, orders |-> <<>>, issued |-> issued]

\* an adapter method that only returns a value
ReadCall(method, value) ==
  [called |-> method, body |-> value, orders |-> orders, issued |-> issued]

Serve(route, auth, verr, out) ==
  LET r == Handle(route, auth, verr, Cur, out)
  IN /\ resp' = r.resp
     /\ orders' = r.orders
     /\ issued' = r.issued
     /\ UNCHANGED <<env, phase, settings, adapter, clock, gate, pc, frame, hist>>

\* ------------------------------------------------------------- the gateway

NoResponse == [route |-> "none", code |-> 0, called |-> "none", body |-> [detail |-> ""]]
NoGate == [route |-> "none", authorization |-> None, ok |-> TRUE, status_code |-> 0]
NoSettings == [token |-> <<>>, mode |-> <<>>]
NoHistory == [placed_by |-> <<>>, account_id |-> None, repeated |-> FALSE]

Init ==
  /\ env \in Envs
  /\ phase = "boot"
  /\ settings = NoSettings
  /\ adapter = "none"
  /\ orders = <<>>
  /\ issued = {}
  /\ clock = 0
  /\ resp = NoResponse
  /\ gate = NoGate
  /\ pc = <<>>
  /\ frame = <<>>
  /\ hist = NoHistory

\* The import of the module: settings = load_settings(), then the adapter is
\* built.  An exception raised there ends the import: no app is ever served.
Startup ==
  /\ phase = "boot"
  /\ LET s == load_settings(env)
         a == SelectAdapter(s.mode)
     IN /\ settings' = s
        /\ adapter' = IF a.ok THEN a.cls ELSE "none"
        /\ phase' = IF a.ok THEN "serving" ELSE "aborted"
  /\ UNCHANGED <<env, orders, issued, clock, resp, gate, pc, frame, hist>>

\* time passes
Tick ==
  /\ phase = "serving"
  /\ clock + 1 \in Times
  /\ clock' = clock + 1
  /\ UNCHANGED <<env, phase, settings, adapter, orders, issued, resp, gate, pc, frame, hist>>

\* GET /health: no dependency on require_bearer
health ==
  /\ phase = "serving"
  /\ Serve("health", GateOk, NoError,
           ReadCall("none", [status |-> "ok", mode |-> settings.mode, time |-> clock \div 1000]))

get_balance ==
  /\ phase = "serving"
  /\ \E h \in Headers, account_id \in Accounts :
       Serve("get_balance", require_bearer(settings.token, h), NoError,
             ReadCall("get_balance", MockAdapter_get_balance(account_id)))

get_positions ==
  /\ phase = "serving"
  /\ \E h \in Headers, account_id \in Accounts :
       Serve("get_positions", require_bearer(settings.token, h), NoError,
             ReadCall("get_positions", MockAdapter_get_positions(account_id)))

get_snapshot ==
  /\ phase = "serving"
  /\ \E h \in Headers, symbol \in Symbols :
       Serve("get_snapshot", require_bearer(settings.token, h), NoError,
             ReadCall("get_snapshot", MockAdapter_get_snapshot(symbol)))

get_klines ==
  /\ phase = "serving"
  /\ \E h \in Headers, q \in KlineQueries, limit \in Limits :
       Serve("get_klines", require_bearer(settings.token, h), validate_limit(limit),
             ReadCall("get_klines", MockAdapter_get_klines(q[1], q[2], limit, clock)))

get_symbols ==
  /\ phase = "serving"
  /\ \E h \in Headers, q \in SymbolQueries :
       Serve("get_symbols", require_bearer(settings.token, h), validate_scope(q[1]),
             ReadCall("get_symbols", MockAdapter_get_symbols(q[1], q[2])))

\* the uuid a call of the adapter made now would draw, for a request that is
\* rejected and so makes no call (any id once the uuid space is used up)
WouldDraw ==
  IF uuid4(issued) = {} THEN { CHOOSE i \in Ids : TRUE }
  ELSE { CHOOSE i \in uuid4(issued) : TRUE }

\* POST /v1/orders.  The uuid4 value and the clock are what the adapter reads
\* when it runs.
place_order ==
  /\ phase = "serving"
  /\ \E h \in Headers, req \in OrderRequests :
       LET auth == require_bearer(settings.token, h)
           verr == validate_OrderRequest(req)
       IN \E id \in IF auth.ok /\ verr = NoError THEN uuid4(issued) ELSE WouldDraw :
            LET call == MockAdapter_place_order(orders, req, id, clock)
            IN Serve("place_order", auth, verr,
                     [called |-> "place_order", body |-> call.ret,
                      orders |-> call.orders, issued |-> issued \cup {id}])

\* POST /v1/orders/cancel
cancel_order ==
  /\ phase = "serving"
  /\ \E h \in Headers, req \in CancelOrderRequests :
       LET call == MockAdapter_cancel_order(orders, req)
       IN Serve("cancel_order", require_bearer(settings.token, h), NoError,
                [called |-> "cancel_order", body |-> call.ret,
                 orders |-> call.orders, issued |-> issued])

Next ==
  \/ Startup
  \/ Tick
  \/ health
  \/ get_balance
  \/ get_positions
  \/ get_snapshot
  \/ get_klines
  \/ get_symbols
  \/ place_order
  \/ cancel_order

Spec == Init /\ [][Next]_vars

\* ------------------------------------------------- the auth gate by itself

\* the environments of the gate's check: token unset, empty, plain, and with
\* leading whitespace
GateEnvs ==
  { [QMT_GATEWAY_TOKEN |-> t, QMT_GATEWAY_MODE |-> None] :
    t \in { None, Some(<<>>), Some(TokenTk), Some(<<" ">> \o TokenTk) } }

\* runs of whitespace of at most MaxPad characters
RECURSIVE Pads(_)
Pads(n) ==
  IF n = 0 THEN { <<>> }
  ELSE Pads(n - 1) \cup { <<w>> \o p : w \in Whitespace, p \in { q \in Pads(n - 1) : Len(q) = n - 1 } }

GatePrefixes ==
  { <<>>, BearerPrefix, <<"b","e","a","r","e","r"," ">>, <<"B","e","a","r","e","r">>,
    <<"B","a","s","i","c"," ">> }
GateValues == { <<>>, TokenTk, <<"t","K">>, <<"t">>, <<"t","k","k">> }

\* Authorization headers: absent, or prefix, padding and value.  An HTTP field
\* value arrives without trailing whitespace.
GateHeaders ==
  { None } \cup
  { Some(RStrip(p \o l \o v)) : p \in GatePrefixes, l \in Pads(MaxPad), v \in GateValues }

ProtectedRoutes ==
  { "get_balance", "get_positions", "get_snapshot", "get_klines", "get_symbols",
    "place_order", "cancel_order" }

GateInit ==
  /\ env \in GateEnvs
  /\ phase = "boot"
  /\ settings = NoSettings
  /\ adapter = "none"
  /\ orders = <<>>
  /\ issued = {}
  /\ clock = 0
  /\ resp = NoResponse
  /\ gate = NoGate
  /\ pc = <<>>
  /\ frame = <<>>
  /\ hist = NoHistory

\* Depends(require_bearer) of a protected route, on a request's header
GateCheck ==
  /\ phase = "serving"
  /\ \E route \in ProtectedRoutes, h \in GateHeaders :
       LET auth == require_bearer(settings.token, h)
       IN gate' = [route |-> route, authorization |-> h, ok |-> auth.ok,
                   status_code |-> auth.status_code]
  /\ UNCHANGED <<env, phase, settings, adapter, orders, issued, clock, resp, pc, frame, hist>>

GateNext == Startup \/ GateCheck

GateSpec == GateInit /\ [][GateNext]_vars

\* ------------------------------------------- handlers on the worker threads

(***************************************************************************)
(* The routes are plain def functions, which the framework runs on worker   *)
(* threads: two requests can be inside the adapter at once, and a thread    *)
(* can be preempted between any two statements.  The adapter takes no lock. *)
(* A step below is one statement that reads or writes the registry; the     *)
(* statements before it that touch only locals are taken with the request.  *)
(***************************************************************************)

Threads == 1..NThreads

ConcEnvs == { [QMT_GATEWAY_TOKEN |-> None, QMT_GATEWAY_MODE |-> None] }

\* the requests of the handler threads: every header passes the gate of
\* ConcEnvs, and no adapter method reads the account
ConcHeaders == { None }
ConcOrderRequests == { req \in OrderRequests : req.account_id = "A1" }
ConcCancelOrderRequests == { req \in CancelOrderRequests : req.account_id = "A1" }

IdleFrame == [op |-> "none", order_id |-> 0, order |-> None, ret |-> None]

ConcInit ==
  /\ env \in ConcEnvs
  /\ phase = "boot"
  /\ settings = NoSettings
  /\ adapter = "none"
  /\ orders = <<>>
  /\ issued = {}
  /\ clock = 0
  /\ resp = NoResponse
  /\ gate = NoGate
  /\ pc = [t \in Threads |-> "idle"]
  /\ frame = [t \in Threads |-> IdleFrame]
  /\ hist = NoHistory

\* A place request passes the gate and the validation and its handler starts:
\* order_id = str(uuid.uuid4()) and the order dict are built.
BeginPlace(t) ==
  /\ phase = "serving"
  /\ pc[t] = "idle"
  /\ \E h \in ConcHeaders, req \in ConcOrderRequests, id \in uuid4(issued) :
       /\ require_bearer(settings.token, h).ok
       /\ validate_OrderRequest(req) = NoError
       /\ frame' = [frame EXCEPT ![t] =
                      [op |-> "place_order", order_id |-> id,
                       order |-> Some(NewOrder(req, id, clock)), ret |-> None]]
       /\ issued' = issued \cup {id}
  /\ pc' = [pc EXCEPT ![t] = "place_store"]
  /\ UNCHANGED <<env, phase, settings, adapter, orders, clock, resp, gate, hist>>

\* self._orders[order_id] = order
PlaceStore(t) ==
  /\ pc[t] = "place_store"
  /\ orders' = StoreOrder(orders, frame[t].order_id, frame[t].order[1])
  /\ pc' = [pc EXCEPT ![t] = "place_return"]
  /\ UNCHANGED <<env, phase, settings, adapter, issued, clock, resp, gate, frame, hist>>

\* return order: the dict returned is the dict stored, so the response shows
\* the order as the registry holds it when the response is built
PlaceReturn(t) ==
  /\ pc[t] = "place_return"
  /\ frame' = [frame EXCEPT ![t] =
                 [op |-> "place_order", order_id |-> frame[t].order_id,
                  order |-> None, ret |-> Some(orders[frame[t].order_id])]]
  /\ pc' = [pc EXCEPT ![t] = "idle"]
  /\ UNCHANGED <<env, phase, settings, adapter, orders, issued, clock, resp, gate, hist>>

\* The order ids a client can name: a uuid4 value is not guessed, so an id
\* that was drawn is named only once a response has carried it.
InFlightIds == { frame[t].order_id : t \in { u \in Threads : pc[u] \in {"place_store", "place_return"} } }
NameableIds == (Ids \cup {0}) \ (issued \ (DOMAIN orders \ InFlightIds))

\* a cancel request passes the gate and its handler starts
BeginCancel(t) ==
  /\ phase = "serving"
  /\ pc[t] = "idle"
  /\ \E h \in ConcHeaders, req \in ConcCancelOrderRequests :
       /\ req.order_id \in NameableIds
       /\ require_bearer(settings.token, h).ok
       /\ frame' = [frame EXCEPT ![t] =
                      [op |-> "cancel_order", order_id |-> req.order_id,
                       order |-> None, ret |-> None]]
  /\ pc' = [pc EXCEPT ![t] = "cancel_check"]
  /\ UNCHANGED <<env, phase, settings, adapter, orders, issued, clock, resp, gate, hist>>

\* if req.order_id not in self._orders: return NOT_FOUND
CancelCheck(t) ==
  /\ pc[t] = "cancel_check"
  /\ IF frame[t].order_id \notin DOMAIN orders
       THEN /\ frame' = [frame EXCEPT ![t].ret =
                           Some([status |-> "NOT_FOUND", order_id |-> frame[t].order_id])]
            /\ pc' = [pc EXCEPT ![t] = "idle"]
       ELSE /\ frame' = frame
            /\ pc' = [pc EXCEPT ![t] = "cancel_update"]
  /\ UNCHANGED <<env, phase, settings, adapter, orders, issued, clock, resp, gate, hist>>

\* self._orders[req.order_id]["status"] = "CANCELED"; nothing removes a key,
\* so the key found by the check is still there
CancelUpdate(t) ==
  /\ pc[t] = "cancel_update"
  /\ frame[t].order_id \in DOMAIN orders
  /\ orders' = SetCanceled(orders, frame[t].order_id)
  /\ pc' = [pc EXCEPT ![t] = "cancel_return"]
  /\ UNCHANGED <<env, phase, settings, adapter, issued, clock, resp, gate, frame, hist>>

\* return {"status": "CANCELED", "order_id": req.order_id}
CancelReturn(t) ==
  /\ pc[t] = "cancel_return"
  /\ frame' = [frame EXCEPT ![t].ret =
                 Some([status |-> "CANCELED", order_id |-> frame[t].order_id])]
  /\ pc' = [pc EXCEPT ![t] = "idle"]
  /\ UNCHANGED <<env, phase, settings, adapter, orders, issued, clock, resp, gate, hist>>

\* a thread serves a request of a read route from start to end: no statement
\* of these handlers reads or writes the registry
ThreadRead(t, route, out) ==
  LET r == Handle(route, GateOk, NoError, Cur, out)
  IN /\ orders' = r.orders
     /\ issued' = r.issued
     /\ frame' = [frame EXCEPT ![t] =
                    [op |-> route, order_id |-> 0, order |-> None, ret |-> None]]

ReadRequest(t) ==
  /\ phase = "serving"
  /\ pc[t] = "idle"
  /\ \/ ThreadRead(t, "health",
                   ReadCall("none", [status |-> "ok", mode |-> settings.mode,
                                     time |-> clock \div 1000]))
     \/ \E account_id \in Accounts :
          ThreadRead(t, "get_balance",
                     ReadCall("get_balance", MockAdapter_get_balance(account_id)))
     \/ \E account_id \in Accounts :
          ThreadRead(t, "get_positions",
                     ReadCall("get_positions", MockAdapter_get_positions(account_id)))
     \/ \E symbol \in Symbols :
          ThreadRead(t, "get_snapshot",
                     ReadCall("get_snapshot", MockAdapter_get_snapshot(symbol)))
     \/ \E q \in KlineQueries, limit \in 1..MaxLimit :
          ThreadRead(t, "get_klines",
                     ReadCall("get_klines", MockAdapter_get_klines(q[1], q[2], limit, clock)))
     \/ \E q \in { sq \in SymbolQueries : validate_scope(sq[1]) = NoError } :
          ThreadRead(t, "get_symbols",
                     ReadCall("get_symbols", MockAdapter_get_symbols(q[1], q[2])))
  /\ UNCHANGED <<env, phase, settings, adapter, clock, resp, gate, pc, hist>>

ConcNext ==
  \/ Startup
  \/ \E t \in Threads : BeginPlace(t)
  \/ \E t \in Threads : PlaceStore(t)
  \/ \E t \in Threads : PlaceReturn(t)
  \/ \E t \in Threads : BeginCancel(t)
  \/ \E t \in Threads : CancelCheck(t)
  \/ \E t \in Threads : CancelUpdate(t)
  \/ \E t \in Threads : CancelReturn(t)

ConcSpec == ConcInit /\ [][ConcNext]_vars

\* Read requests served while a place or a cancel request is under way: one
\* thread serves the orders, the others the read routes.
Writers == { 1 }
Readers == Threads \ Writers

MixedNext ==
  \/ Startup
  \/ \E t \in Writers : BeginPlace(t)
  \/ \E t \in Writers : PlaceStore(t)
  \/ \E t \in Writers : PlaceReturn(t)
  \/ \E t \in Writers : BeginCancel(t)
  \/ \E t \in Writers : CancelCheck(t)
  \/ \E t \in Writers : CancelUpdate(t)
  \/ \E t \in Writers : CancelReturn(t)
  \/ \E t \in Readers : ReadRequest(t)

MixedSpec == ConcInit /\ [][MixedNext]_vars

\* ------------------------------------------- the read methods by themselves

(***************************************************************************)
(* The kline and symbol routes on many queries, at many readings of the     *)
(* clock.  The response keeps the query it answers.                         *)
(***************************************************************************)

\* readings of datetime.now() in milliseconds: on and off the five-minute grid
ReadNows == { 1800000, 1800001, 1923456, 2099999, 2100000 }

ReadIntervals == { "1m", "5m", "1h" }
ReadLimits == 0..MaxLimit \cup { LimitLe + 1 }

ReadScopes == { "watchlist", "sector", "all" }
ReadSectors ==
  { None, Some(<<>>), Some(SectorLiquor), Some(<<"L","i","q","u","o","r">>),
    Some(<<"L","I","Q","U","O","R">>), Some(SectorBank), Some(<<"B","a","n","k">>),
    Some(<<"t","e","c","h">>), Some(<<" ","l","i","q","u","o","r">>),
    Some(<<"l","i","q","u","o","r","s">>) }

ReadInit ==
  /\ env \in ConcEnvs
  /\ phase = "boot"
  /\ settings = NoSettings
  /\ adapter = "none"
  /\ orders = <<>>
  /\ issued = {}
  /\ clock \in ReadNows
  /\ resp = NoResponse
  /\ gate = NoGate
  /\ pc = <<>>
  /\ frame = <<>>
  /\ hist = NoHistory

\* GET /v1/market/klines?symbol=..&interval=..&limit=..
KlineRequest ==
  /\ phase = "serving"
  /\ \E symbol \in Symbols, interval \in ReadIntervals, limit \in ReadLimits :
       LET r == Handle("get_klines", require_bearer(settings.token, None),
                       validate_limit(limit), Cur,
                       ReadCall("get_klines",
                                MockAdapter_get_klines(symbol, interval, limit, clock)))
       IN /\ resp' = [route |-> r.resp.route, code |-> r.resp.code,
                      called |-> r.resp.called, body |-> r.resp.body,
                      query |-> [symbol |-> symbol, interval |-> interval, limit |-> limit]]
          /\ orders' = r.orders
          /\ issued' = r.issued
  /\ UNCHANGED <<env, phase, settings, adapter, clock, gate, pc, frame, hist>>

\* GET /v1/market/symbols?scope=..&sector=..
SymbolRequest ==
  /\ phase = "serving"
  /\ \E scope \in ReadScopes, sector \in ReadSectors :
       LET r == Handle("get_symbols", require_bearer(settings.token, None),
                       validate_scope(scope), Cur,
                       ReadCall("get_symbols", MockAdapter_get_symbols(scope, sector)))
       IN /\ resp' = [route |-> r.resp.route, code |-> r.resp.code,
                      called |-> r.resp.called, body |-> r.resp.body,
                      query |-> [scope |-> scope, sector |-> sector]]
          /\ orders' = r.orders
          /\ issued' = r.issued
  /\ UNCHANGED <<env, phase, settings, adapter, clock, gate, pc, frame, hist>>

ReadNext == Startup \/ KlineRequest \/ SymbolRequest

ReadSpec == ReadInit /\ [][ReadNext]_vars

\* ------------------------------------------- the order routes with a history

(***************************************************************************)
(* The place and cancel routes as in Spec, with a history of what was       *)
(* asked: the account that placed each order, the account the request       *)
(* served last named, and whether that request was a cancel of the order    *)
(* the request before it canceled.  The program keeps none of this.         *)
(***************************************************************************)

HistPlace ==
  /\ phase = "serving"
  /\ \E h \in Headers, req \in OrderRequests :
       LET auth == require_bearer(settings.token, h)
           verr == validate_OrderRequest(req)
       IN \E id \in IF auth.ok /\ verr = NoError THEN uuid4(issued) ELSE WouldDraw :
            LET call == MockAdapter_place_order(orders, req, id, clock)
                r == Handle("place_order", auth, verr, Cur,
                            [called |-> "place_order", body |-> call.ret,
                             orders |-> call.orders, issued |-> issued \cup {id}])
                served == r.resp.called = "place_order"
            IN /\ resp' = r.resp
               /\ orders' = r.orders
               /\ issued' = r.issued
               /\ hist' = [ placed_by |->
                              IF served
                                THEN [ k \in DOMAIN hist.placed_by \cup {id} |->
                                       IF k = id THEN req.account_id ELSE hist.placed_by[k] ]
                                ELSE hist.placed_by,
                            account_id |-> IF served THEN Some(req.account_id) ELSE None,
                            repeated |-> FALSE ]
  /\ UNCHANGED <<env, phase, settings, adapter, clock, gate, pc, frame>>

HistCancel ==
  /\ phase = "serving"
  /\ \E h \in Headers, req \in CancelOrderRequests :
       LET call == MockAdapter_cancel_order(orders, req)
           r == Handle("cancel_order", require_bearer(settings.token, h), NoError, Cur,
                       [called |-> "cancel_order", body |-> call.ret,
                        orders |-> call.orders, issued |-> issued])
           served == r.resp.called = "cancel_order"
       IN /\ resp' = r.resp
          /\ orders' = r.orders
          /\ issued' = r.issued
          /\ hist' = [ placed_by |-> hist.placed_by,
                       account_id |-> IF served THEN Some(req.account_id) ELSE None,
                       repeated |-> /\ served
                                    /\ resp.called = "cancel_order"
                                    /\ resp.body.order_id = req.order_id ]
  /\ UNCHANGED <<env, phase, settings, adapter, clock, gate, pc, frame>>

HistNext == Startup \/ HistPlace \/ HistCancel

HistSpec == Init /\ [][HistNext]_vars

\* ------------------------------------------------------------------ claims

AllWhitespace(s) == \A k \in 1..Len(s) : s[k] \in Whitespace

\* v is t with whitespace before and after it
PaddedEq(v, t) ==
  \E i \in 0..Len(v) : \E j \in i..Len(v) :
    /\ AllWhitespace(SubSeq(v, 1, i))
    /\ SubSeq(v, i + 1, j) = t
    /\ AllWhitespace(SubSeq(v, j + 1, Len(v)))

NoOuterWhitespace(t) == t # <<>> /\ t[1] \notin Whitespace /\ t[Len(t)] \notin Whitespace

HasBearerPrefix(h) == h # None /\ StartsWith(h[1], BearerPrefix)

ValueAfterPrefix(h) == SubSeq(h[1], Len(BearerPrefix) + 1, Len(h[1]))

\* C6 as stated: with an empty token every request to a protected route
\* passes the gate; with a non-empty token a request passes if and only if
\* its header is "Bearer " followed by exactly the configured token, and is
\* rejected with 401 otherwise.
C6_GateExactMatch ==
  gate.route \in ProtectedRoutes =>
    /\ settings.token = <<>> => gate.ok
    /\ settings.token # <<>> =>
         (gate.ok <=> (HasBearerPrefix(gate.authorization)
                        /\ ValueAfterPrefix(gate.authorization) = settings.token))
    /\ ~gate.ok => gate.status_code = 401

\* C6 amended: with an empty token every request passes; with a non-empty
\* token a request passes if and only if its header is "Bearer " followed by
\* a value that is the configured token once the whitespace around the value
\* is removed (so a token that itself begins or ends with whitespace is never
\* matched); every other request is rejected with 401.
C6_GateStrippedMatch ==
  gate.route \in ProtectedRoutes =>
    /\ settings.token = <<>> => gate.ok
    /\ settings.token # <<>> =>
         (gate.ok <=> (/\ HasBearerPrefix(gate.authorization)
                       /\ NoOuterWhitespace(settings.token)
                       /\ PaddedEq(ValueAfterPrefix(gate.authorization), settings.token)))
    /\ ~gate.ok => gate.status_code = 401

\* the gate passed a header whose value is the token behind extra whitespace
C6_Witness ==
  /\ gate.route = "place_order"
  /\ settings.token = TokenTk
  /\ gate.ok
  /\ HasBearerPrefix(gate.authorization)
  /\ ValueAfterPrefix(gate.authorization) # settings.token

\* C1: every place_order call that reaches the mock adapter returns an order
\* with status FILLED, commission 0 and avg_price equal to the last_price of
\* get_snapshot for its symbol, and the registry then holds that order under
\* the returned order_id.
C1_PlaceFillsAtSnapshot ==
  resp.called = "place_order" =>
    /\ resp.code = 200
    /\ resp.body.quantity >= 1
    /\ resp.body.status = "FILLED"
    /\ resp.body.commission = 0
    /\ resp.body.avg_price = MockAdapter_get_snapshot(resp.body.symbol).last_price
    /\ resp.body.order_id \in DOMAIN orders
    /\ orders[resp.body.order_id] = resp.body

\* an order for the second symbol placed into a registry that holds another
C1_Witness ==
  /\ resp.called = "place_order"
  /\ resp.body.symbol = "NOPE.XX"
  /\ \E k \in DOMAIN orders : k # resp.body.order_id /\ orders[k].status = "CANCELED"

\* C2: cancel_order answers CANCELED exactly when the order_id is in the
\* registry and NOT_FOUND exactly when it is not; NOT_FOUND is a 200 response
\* that leaves the registry as it was, with no entry for the unknown id.
C2_CancelFoundOrNot ==
  [][ resp'.called = "cancel_order" =>
        LET id == resp'.body.order_id
        IN /\ resp'.code = 200
           /\ resp'.body.status \in { "CANCELED", "NOT_FOUND" }
           /\ (resp'.body.status = "CANCELED") <=> (id \in DOMAIN orders)
           /\ (resp'.body.status = "NOT_FOUND") <=> (id \notin DOMAIN orders)
           /\ (id \notin DOMAIN orders) => (orders' = orders)
           /\ (id \in DOMAIN orders) => (orders'[id].status = "CANCELED") ]_vars

\* an unknown id answered NOT_FOUND after the order just placed was canceled
C2_Witness ==
  /\ resp.called = "cancel_order"
  /\ resp.code = 200
  /\ resp.body.status = "NOT_FOUND"
  /\ resp.body.order_id \notin DOMAIN orders
  /\ \E k \in DOMAIN orders : orders[k].status = "CANCELED"

\* C3: an entry is created only by a successful place_order, in status
\* FILLED; its status changes only FILLED -> CANCELED, only by a cancel_order
\* on its id; CANCELED is never left; every stored status is FILLED or
\* CANCELED; no step changes another field of a stored order.
C3_Lifecycle ==
  [][ /\ \A id \in DOMAIN orders' \ DOMAIN orders :
           /\ resp'.called = "place_order"
           /\ resp'.code = 200
           /\ resp'.body.order_id = id
           /\ orders'[id].status = "FILLED"
      /\ \A id \in DOMAIN orders' \cap DOMAIN orders :
           /\ DOMAIN orders'[id] = DOMAIN orders[id]
           /\ \A f \in DOMAIN orders[id] \ { "status" } : orders'[id][f] = orders[id][f]
           /\ orders[id].status = "CANCELED" => orders'[id].status = "CANCELED"
           /\ orders'[id].status # orders[id].status =>
                /\ orders[id].status = "FILLED"
                /\ orders'[id].status = "CANCELED"
                /\ resp'.called = "cancel_order"
                /\ resp'.body.order_id = id
      /\ \A id \in DOMAIN orders' : orders'[id].status \in { "FILLED", "CANCELED" } ]_vars

\* a FILLED order beside a CANCELED one that was placed at an earlier time
C3_Witness ==
  \E a, b \in DOMAIN orders :
    /\ orders[a].status = "CANCELED"
    /\ orders[b].status = "FILLED"
    /\ orders[a].created_at < orders[b].created_at
    /\ resp.called = "cancel_order"
    /\ resp.body.order_id = a

\* C4: an order_id that is a key of the registry stays a key in every later
\* state: the set of keys only grows.
C4_NeverDeleted == [][ DOMAIN orders \subseteq DOMAIN orders' ]_vars

\* both orders still stored after a cancel of each and a read
C4_Witness ==
  /\ Cardinality(DOMAIN orders) = MaxOrders
  /\ \A k \in DOMAIN orders : orders[k].status = "CANCELED"
  /\ resp.called = "get_positions"

\* C7: a request that the auth gate rejects (401) runs no adapter method and
\* leaves the registry, and the uuids drawn, as they were.
C7_RejectedBeforeAdapter ==
  [][ resp'.code = 401 =>
        /\ resp'.called = "none"
        /\ orders' = orders
        /\ issued' = issued ]_vars

\* a place_order request rejected by the gate while orders are stored
C7_Witness ==
  /\ resp.code = 401
  /\ resp.route = "place_order"
  /\ DOMAIN orders # {}
  /\ settings.token # <<>>

\* C8: an order request with quantity below 1 that passes the gate is answered
\* 422 without a call of the adapter: the registry and the uuids drawn are
\* unchanged; no response and no stored order carries a quantity below 1.
C8_QuantityRejected ==
  [][ /\ resp'.route = "place_order" =>
           /\ resp'.code \in { 200, 401, 422 }
           /\ resp'.code = 200 => resp'.body.quantity >= 1
           /\ resp'.code = 422 =>
                /\ resp'.body.detail[1].loc = "quantity"
                /\ resp'.body.detail[1].input < 1
                /\ resp'.called = "none"
                /\ orders' = orders
                /\ issued' = issued
      /\ \A id \in DOMAIN orders' : orders'[id].quantity >= 1 ]_vars

\* a negative quantity answered 422 while an order is stored
C8_Witness ==
  /\ resp.route = "place_order"
  /\ resp.code = 422
  /\ resp.body.detail[1].input = -1
  /\ DOMAIN orders # {}

\* C9: every place_order call of the adapter adds exactly one entry, under an
\* order_id that was not in the registry, and leaves the other entries alone,
\* whatever client_req_id it carries.
C9_FreshIdNoDedup ==
  [][ (resp'.called = "place_order" /\ <<resp', orders'>> # <<resp, orders>>) =>
        LET id == resp'.body.order_id
        IN /\ id \notin DOMAIN orders
           /\ DOMAIN orders' = DOMAIN orders \cup {id}
           /\ orders'[id] = resp'.body
           /\ \A k \in DOMAIN orders : orders'[k] = orders[k] ]_vars

\* two stored orders that carry the same client_req_id
C9_Witness ==
  /\ resp.called = "place_order"
  /\ \E a, b \in DOMAIN orders :
       /\ a # b
       /\ orders[a].client_req_id = orders[b].client_req_id
       /\ b = resp.body.order_id

ModeNamesXtQuant ==
  /\ env.QMT_GATEWAY_MODE # None
  /\ Strip(Lower(env.QMT_GATEWAY_MODE[1])) = ModeXtQuant

\* C10: when the configured mode, lower-cased and trimmed, names the xtquant
\* adapter, which cannot be built, the process never serves: no request is
\* answered and no MockAdapter is installed.
C10_StartupFailFast ==
  ModeNamesXtQuant =>
    /\ phase \in { "boot", "aborted" }
    /\ adapter # "mock"
    /\ resp = NoResponse
    /\ orders = <<>>

\* startup aborted for a mode spelled with capitals and spaces
C10_Witness ==
  /\ phase = "aborted"
  /\ env.QMT_GATEWAY_MODE # None
  /\ env.QMT_GATEWAY_MODE[1] # ModeXtQuant
  /\ settings.mode = ModeXtQuant

\* a thread is inside cancel_order's mutating section from its membership
\* check to its status update (place_order's insert is a single step)
InMutatingSection(t) == pc[t] = "cancel_update"

\* C5: the registry's mutations are made under mutual exclusion: no two
\* handler threads are inside a registry-mutating section at the same time.
C5_MutualExclusion ==
  \A t, u \in Threads : (t # u /\ InMutatingSection(t)) => ~InMutatingSection(u)

\* the duration of an interval name, in milliseconds
IntervalMs(interval) ==
  IF interval = "1m" THEN 60 * 1000
  ELSE IF interval = "5m" THEN 5 * 60 * 1000
  ELSE 60 * 60 * 1000

KlinesAnswered == resp.route = "get_klines" /\ resp.code = 200

\* C11: a kline request with a limit N in 1..2000 and any interval is answered
\* with exactly N candles in non-decreasing openTime order, each with
\* closeTime = openTime + interval_ms - 1 for the duration interval_ms of the
\* requested interval, low <= min(open, close) and high >= max(open, close).
C11_KlineShape ==
  resp.route = "get_klines" /\ resp.query.limit \in LimitGe..LimitLe =>
    /\ resp.code = 200
    /\ Len(resp.body) = resp.query.limit
    /\ \A i \in 1..(Len(resp.body) - 1) : resp.body[i].openTime <= resp.body[i + 1].openTime
    /\ \A i \in 1..Len(resp.body) :
         /\ resp.body[i].closeTime =
              resp.body[i].openTime + IntervalMs(resp.query.interval) - 1
         /\ resp.body[i].low <= Min(resp.body[i].open, resp.body[i].close)
         /\ resp.body[i].high >= Max(resp.body[i].open, resp.body[i].close)

\* two strings equal up to the case of their letters
EqualIgnoringCase(a, b) ==
  /\ Len(a) = Len(b)
  /\ \A i \in 1..Len(a) : LowerChar(a[i]) = LowerChar(b[i])

SectorRequested(key) ==
  /\ resp.query.scope = "sector"
  /\ resp.query.sector # None
  /\ EqualIgnoringCase(resp.query.sector[1], key)

\* C12: a symbol request names a scope of the enumeration and is answered,
\* never failed: with the liquor list or the bank list exactly when the scope
\* is "sector" and the sector is that key up to case, and with the default
\* watchlist for every other pair of scope and sector.
C12_SymbolsTotalLookup ==
  resp.route = "get_symbols" /\ resp.query.scope \in { "watchlist", "sector" } =>
    /\ resp.code = 200
    /\ resp.called = "get_symbols"
    /\ resp.body =
         IF SectorRequested(<<"l","i","q","u","o","r">>)
           THEN <<"600519.SH", "000858.SZ">>
         ELSE IF SectorRequested(<<"b","a","n","k">>)
           THEN <<"600036.SH", "601398.SH", "000001.SZ">>
         ELSE <<"600519.SH", "000001.SZ", "300750.SZ", "601318.SH">>

C12_Witness ==
  /\ resp.route = "get_symbols"
  /\ resp.query = [scope |-> "sector", sector |-> Some(<<"L","i","q","u","o","r">>)]
  /\ resp.body = <<"600519.SH", "000858.SZ">>

KlineStepMs == 5 * 60 * 1000

\* the wall clock truncated to a boundary of the kline grid
TruncatedNow == clock - (clock % KlineStepMs)

\* C14: the kline series stands on a grid that starts from the wall clock
\* truncated to an interval boundary: every openTime is an exact multiple of
\* the step duration, consecutive candles are contiguous in time
\* (openTime[i+1] = closeTime[i] + 1) and in price (open[i+1] = close[i]), and
\* the newest candle closes at the truncated current time minus 1 ms.
C14_KlineGrid ==
  KlinesAnswered =>
    /\ \A i \in 1..Len(resp.body) : resp.body[i].openTime % KlineStepMs = 0
    /\ \A i \in 1..(Len(resp.body) - 1) :
         /\ resp.body[i + 1].openTime = resp.body[i].closeTime + 1
         /\ resp.body[i + 1].open = resp.body[i].close
    /\ resp.body[Len(resp.body)].closeTime = TruncatedNow - 1

Range(f) == { f[i] : i \in DOMAIN f }

\* the symbols the adapter lists as tradable, under any scope and sector
ListedSymbols ==
  Range(MockAdapter_get_symbols("watchlist", None))
    \cup Range(MockAdapter_get_symbols("sector", Some(SectorLiquor)))
    \cup Range(MockAdapter_get_symbols("sector", Some(SectorBank)))

\* C13: get_snapshot fails with UnknownSymbol for a symbol that is not
\* tradable, so a snapshot is only ever answered for a listed symbol and no
\* order in the registry was filled at a snapshot price for an unlisted one.
C13_UnknownSymbolRejected ==
  /\ resp.route = "get_snapshot" /\ resp.code = 200 => resp.body.symbol \in ListedSymbols
  /\ \A k \in DOMAIN orders : orders[k].symbol \in ListedSymbols

ReadRoutes ==
  { "health", "get_balance", "get_positions", "get_snapshot", "get_klines", "get_symbols" }

\* C15: a request of a read route (balance, positions, snapshot, klines,
\* symbols, health) leaves the order registry as it found it, in every state
\* it is served in, also between the steps of a place or a cancel request
\* served on another thread.
C15_ReadsLeaveRegistry ==
  [][ \A t \in Threads :
        frame'[t] # frame[t] /\ frame'[t].op \in ReadRoutes => orders' = orders ]_vars

\* a read request was served, a cancel request is between its check and its
\* update, and the registry holds an order
C15_Witness ==
  /\ phase = "serving"
  /\ orders # <<>>
  /\ \E t \in Readers : frame[t].op \in ReadRoutes
  /\ \E u \in Writers : pc[u] = "cancel_update"

\* C16: the balance, the positions and the snapshot prices are fixed: after
\* any sequence of place and cancel requests they are the values a fresh
\* adapter returns (equity 1 000 000, available and wallet 650 000, market
\* value 350 000; one position of 500 shares of 600519.SH, 300 available;
\* last price 1698.0 between the limits 1528.2 and 1867.8), the positions come
\* in the same order, and no position has more available than held.
C16_FixedReads ==
  /\ resp.called = "get_balance" =>
       resp.body = [ total_equity |-> 10000000, available_balance |-> 6500000,
                     wallet_balance |-> 6500000, unrealized_pnl |-> 0,
                     market_value |-> 3500000 ]
  /\ resp.called = "get_positions" =>
       /\ resp.body = << [ symbol |-> "600519.SH", quantity |-> 500, available_qty |-> 300,
                           entry_price |-> 16800, last_price |-> 16980,
                           unrealized_pnl |-> 90000 ] >>
       /\ \A i \in 1..Len(resp.body) : resp.body[i].available_qty <= resp.body[i].quantity
  /\ resp.called = "get_snapshot" =>
       /\ resp.body.last_price = 16980
       /\ resp.body.upper_limit = 18678
       /\ resp.body.lower_limit = 15282

\* the balance is read from an adapter that holds a filled and a canceled order
C16_Witness ==
  /\ resp.called = "get_balance"
  /\ \E k \in DOMAIN orders : orders[k].status = "FILLED"
  /\ \E k \in DOMAIN orders : orders[k].status = "CANCELED"

Returned(t) == pc[t] = "idle" /\ frame[t].ret # None

\* C17: no update is lost when the handlers interleave between their registry
\* reads and writes: every order a place request stored or returned is in the
\* registry, and every order some cancel request updated or answered CANCELED
\* for is stored with status CANCELED, in every state and so once every
\* request has completed; two cancels of one order both answer CANCELED and
\* leave it CANCELED.
C17_NoLostUpdates ==
  \A t \in Threads :
    /\ pc[t] = "place_return" => frame[t].order_id \in DOMAIN orders
    /\ Returned(t) /\ frame[t].op = "place_order" =>
         frame[t].ret[1].order_id \in DOMAIN orders
    /\ pc[t] = "cancel_return" =>
         /\ frame[t].order_id \in DOMAIN orders
         /\ orders[frame[t].order_id].status = "CANCELED"
    /\ Returned(t) /\ frame[t].op = "cancel_order" /\ frame[t].ret[1].status = "CANCELED" =>
         /\ frame[t].ret[1].order_id \in DOMAIN orders
         /\ orders[frame[t].ret[1].order_id].status = "CANCELED"

\* two threads have both answered CANCELED for the same order, and a place
\* request has returned
C17_Witness ==
  \E t \in Threads, u \in Threads :
    /\ t # u
    /\ Returned(t) /\ frame[t].op = "cancel_order" /\ frame[t].ret[1].status = "CANCELED"
    /\ Returned(u) /\ frame[u].op = "cancel_order" /\ frame[u].ret[1].status = "CANCELED"
    /\ frame[t].ret[1].order_id = frame[u].ret[1].order_id
    /\ orders[frame[t].ret[1].order_id].status = "CANCELED"

\* C18: cancel_order is idempotent: a cancel request served right after a
\* cancel request for the same order id gets the same answer (CANCELED both
\* times for a known id, NOT_FOUND both times for an unknown one) and leaves
\* the registry as the first left it; no status guard tells them apart.
C18_CancelIdempotent ==
  [][ /\ resp.called = "cancel_order"
      /\ resp'.called = "cancel_order"
      /\ resp'.body.order_id = resp.body.order_id
      => /\ resp'.body = resp.body
         /\ resp'.body.status \in { "CANCELED", "NOT_FOUND" }
         /\ orders' = orders ]_vars

\* a second cancel in a row of a stored order was answered CANCELED
C18_Witness ==
  /\ hist.repeated
  /\ resp.called = "cancel_order"
  /\ resp.body.status = "CANCELED"
  /\ orders[resp.body.order_id].status = "CANCELED"

\* the order request an order was built from, had it named account a
RequestOf(order, a) ==
  [ account_id |-> a, market |-> "CN-A", symbol |-> order.symbol, side |-> order.side,
    quantity |-> order.quantity, order_type |-> "MARKET",
    client_req_id |-> order.client_req_id ]

\* C19: what a place or a cancel request returns and does to the registry
\* depends on the order and the order id only, never on account_id: the same
\* request naming any other account gets the same response and leaves the
\* same registry, so runs that differ in the account ids alone agree on every
\* response and stored status, and every stored order can be canceled by a
\* request naming any account, whichever account placed it.
C19_AccountBlind ==
  [][ /\ resp'.called = "cancel_order" =>
           \A a \in Accounts :
             LET alt == MockAdapter_cancel_order(
                          orders, [account_id |-> a, order_id |-> resp'.body.order_id])
             IN alt.ret = resp'.body /\ alt.orders = orders'
      /\ resp'.called = "place_order" /\ resp' # resp =>
           \A a \in Accounts :
             LET alt == MockAdapter_place_order(
                          orders, RequestOf(resp'.body, a), resp'.body.order_id, clock)
             IN alt.ret = resp'.body /\ alt.orders = orders'
      /\ \A id \in DOMAIN orders, a \in Accounts :
           MockAdapter_cancel_order(orders, [account_id |-> a, order_id |-> id]).ret.status
             = "CANCELED" ]_vars

\* an order placed under one account was canceled by a request naming another
C19_Witness ==
  /\ resp.called = "cancel_order"
  /\ resp.body.status = "CANCELED"
  /\ hist.account_id # None
  /\ hist.account_id[1] # hist.placed_by[resp.body.order_id]

====
